---- MODULE Spec2Model ----
(***************************************************************************)
(* Model of newnewapp.py: the "Lean Inventory Tracker" script.             *)
(*                                                                         *)
(* A title is a sequence of characters; the empty sequence is the missing  *)
(* cell (pandas NaN, which read_csv produces for an empty field).  A       *)
(* Handle cell is an atomic string, "" being the missing cell: the script  *)
(* only ever tests handles for equality.  A table (DataFrame) is a record  *)
(* [cols, rows]: the set of column names and the sequence of rows; a row   *)
(* is a record [Title, Handle], a column the table lacks holding the       *)
(* missing cell.                                                           *)
(***************************************************************************)
EXTENDS Integers, Sequences, FiniteSets, TLC

VARIABLES
    pc,                 \* position of the script run
    product_files,      \* uploads (sequence of files)
    inventory_files,    \* uploads (sequence of files)
    selected_file,      \* upload (a file, or None)
    product_df,
    inventory_df,
    selected_df,
    threshold,          \* threshold argument of fuzzy_match_titles
    selected_titles,
    matched,            \* matched_rows: sequence of tables
    unmatched,          \* unmatched_titles: sequence of titles
    conflicts,          \* conflict_choices: insertion-ordered dict, as a sequence of [title, options]
    widget,             \* per conflict, what the user did with its selectbox: 0 (nothing) or the position picked
    conflict_rows,      \* result of resolve_conflicts: sequence of tables
    filtered_inventory,
    filtered_product,
    ui,                 \* set of messages and widgets the run has rendered
    exception           \* the unhandled exception that ended the run, or "none"

vars == <<pc, product_files, inventory_files, selected_file, product_df, inventory_df,
          selected_df, threshold, selected_titles, matched, unmatched, conflicts, widget,
          conflict_rows, filtered_inventory, filtered_product, ui, exception>>

----------------------------------------------------------------------------
(* Bounds of the model *)

MaxInvRows == 2
MaxProdRows == 2
MaxSelRows == 2
MaxMatchRows == 6
MaxFiles == 2

(* Program constants *)

DefaultThreshold == 95
ExtractLimit == 5

----------------------------------------------------------------------------
(* Values *)

None == [none |-> TRUE]

NaN == <<>>
NaNHandle == ""

SkipLabel == <<"S", "k", "i", "p">>
Skips == <<"S", "k", "i", "p", "s">>
Hat == <<"H", "a", "t">>
NanText == <<"n", "a", "n">>

Titles == {SkipLabel, Skips, Hat}
Handles == {"h1", "h2"}

Encodings == <<"utf-8-sig", "ISO-8859-1", "windows-1252">>

Range(s) == {s[i] : i \in 1..Len(s)}

RECURSIVE SeqsUpTo(_, _)
SeqsUpTo(S, n) ==
    IF n = 0 THEN {<<>>}
    ELSE LET shorter == SeqsUpTo(S, n - 1)
         IN  shorter \cup {Append(s, x) : s \in {t \in shorter : Len(t) = n - 1}, x \in S}

Max2(a, b) == IF a >= b THEN a ELSE b

----------------------------------------------------------------------------
(* rapidfuzz: fuzz.ratio and process.extract *)

\* Length of the longest common subsequence of s[i..] and t[j..].
RECURSIVE LCSFrom(_, _, _, _)
LCSFrom(s, t, i, j) ==
    IF i > Len(s) \/ j > Len(t) THEN 0
    ELSE IF s[i] = t[j] THEN 1 + LCSFrom(s, t, i + 1, j + 1)
    ELSE Max2(LCSFrom(s, t, i + 1, j), LCSFrom(s, t, i, j + 1))

\* fuzz.ratio(s, t) = 100 * 2*LCS / (|s| + |t|), kept as the exact fraction <<num, den>>.
ratio(s, t) ==
    IF Len(s) + Len(t) = 0 THEN <<100, 1>>
    ELSE <<200 * LCSFrom(s, t, 1, 1), Len(s) + Len(t)>>

ScoreGE(r, cutoff) == r[1] >= cutoff * r[2]
ScoreGT(r1, r2) == r1[1] * r2[2] > r2[1] * r1[2]
ScoreEQ(r1, r2) == r1[1] * r2[2] = r2[1] * r1[2]

\* The indexes of S, best score first, equal scores by ascending index.
RECURSIVE RankIdx(_, _, _)
RankIdx(query, choices, S) ==
    IF S = {} THEN <<>>
    ELSE LET best == CHOOSE i \in S : \A j \in S \ {i} :
                        \/ ScoreGT(ratio(query, choices[i]), ratio(query, choices[j]))
                        \/ /\ ScoreEQ(ratio(query, choices[i]), ratio(query, choices[j]))
                           /\ i < j
         IN  <<best>> \o RankIdx(query, choices, S \ {best})

\* process.extract(query, choices, scorer=fuzz.ratio, score_cutoff=cutoff): the
\* choices scoring >= cutoff, ranked, cut to the default limit.  Each result
\* is the record [choice, score, index] of rapidfuzz's (choice, score, index).
extract(query, choices, cutoff) ==
    LET kept == {i \in 1..Len(choices) : ScoreGE(ratio(query, choices[i]), cutoff)}
        ranked == RankIdx(query, choices, kept)
        n == IF Len(ranked) > ExtractLimit THEN ExtractLimit ELSE Len(ranked)
    IN  [k \in 1..n |-> [choice |-> choices[ranked[k]],
                         score |-> ratio(query, choices[ranked[k]]),
                         index |-> ranked[k]]]

----------------------------------------------------------------------------
(* pandas *)

\* Series.astype(str) on one cell: the missing cell becomes the text "nan".
astype_str(cell) == IF cell = NaN THEN NanText ELSE cell

\* df[df['Title'] == value]: a missing cell equals nothing.
RowsWithTitle(df, value) ==
    [cols |-> df.cols,
     rows |-> SelectSeq(df.rows, LAMBDA r : r.Title # NaN /\ r.Title = value)]

\* Series.dropna().unique().tolist(): first occurrences, missing cells dropped.
RECURSIVE dropna_unique(_)
dropna_unique(cells) ==
    IF cells = <<>> THEN <<>>
    ELSE LET init == SubSeq(cells, 1, Len(cells) - 1)
             last == cells[Len(cells)]
             head == dropna_unique(init)
         IN  IF last = NaN \/ last \in Range(init) THEN head ELSE Append(head, last)

\* DataFrame.drop_duplicates(): the first occurrence of every row is kept.
RECURSIVE DedupRows(_)
DedupRows(rows) ==
    IF rows = <<>> THEN <<>>
    ELSE LET init == SubSeq(rows, 1, Len(rows) - 1)
             last == rows[Len(rows)]
             head == DedupRows(init)
         IN  IF last \in Range(init) THEN head ELSE Append(head, last)

\* drop_duplicates left out.
drop_duplicatesKeepAll(df) == df

drop_duplicates(df) == [cols |-> df.cols, rows |-> DedupRows(df.rows)]

\* A row of a table with columns `from`, seen in a table with columns `to`.
WidenRow(r, from, to) ==
    [Title |-> IF "Title" \in from /\ "Title" \in to THEN r.Title ELSE NaN,
     Handle |-> IF "Handle" \in from /\ "Handle" \in to THEN r.Handle ELSE NaNHandle]

\* pd.concat(dfs, ignore_index=True) of a non-empty list: the union of the
\* columns, the rows in order, cells of columns a frame lacks missing.
RECURSIVE ConcatRows(_, _)
ConcatRows(dfs, cols) ==
    IF dfs = <<>> THEN <<>>
    ELSE [k \in 1..Len(Head(dfs).rows) |-> WidenRow(Head(dfs).rows[k], Head(dfs).cols, cols)]
         \o ConcatRows(Tail(dfs), cols)

concat(dfs) ==
    LET cols == UNION {dfs[i].cols : i \in 1..Len(dfs)}
    IN  [cols |-> cols, rows |-> ConcatRows(dfs, cols)]

----------------------------------------------------------------------------
(* Helper functions of the script *)

\* An uploaded file: what pd.read_csv makes of its bytes under each encoding,
\* a table or None (the read raised).
EncSet == Range(Encodings)
OkFile(t) == [parse |-> [e \in EncSet |-> t]]
LatinFile(t) == [parse |-> [e \in EncSet |-> IF e = "utf-8-sig" THEN None ELSE t]]
BadFile == [parse |-> [e \in EncSet |-> None]]

\* A read that hands back an empty table where every encoding failed.
read_csv_failure_as_empty(f) ==
    LET ok == SelectSeq(Encodings, LAMBDA e : f.parse[e] # None)
    IN  IF ok = <<>> THEN [cols |-> {"Title", "Handle"}, rows |-> <<>>] ELSE f.parse[Head(ok)]

\* The first encoding under which the file reads decides; None when none does.
read_csv_with_fallback(f) ==
    LET ok == SelectSeq(Encodings, LAMBDA e : f.parse[e] # None)
    IN  IF ok = <<>> THEN None ELSE f.parse[Head(ok)]

\* conflict_choices[title] = options on an insertion-ordered dict.
DictKeys(d) == {d[i].title : i \in 1..Len(d)}
DictSet(d, title, options) ==
    IF title \in DictKeys(d)
    THEN [i \in 1..Len(d) |-> IF d[i].title = title THEN [title |-> title, options |-> options]
                                                    ELSE d[i]]
    ELSE Append(d, [title |-> title, options |-> options])

\* One pass of the loop body of fuzzy_match_titles, for selected_titles[k].
RECURSIVE MatchLoop(_, _, _, _, _, _)
MatchLoop(sel, k, inv, inventory_titles, cutoff, acc) ==
    IF k > Len(sel) THEN acc
    ELSE LET title == sel[k]
             matches == extract(title, inventory_titles, cutoff)
             next ==
                 IF Len(matches) = 0
                 THEN [acc EXCEPT !.unmatched = Append(@, title)]
                 ELSE IF Len(matches) = 1
                 THEN [acc EXCEPT !.matched = Append(@, RowsWithTitle(inv, matches[1].choice))]
                 ELSE [acc EXCEPT !.conflicts =
                          DictSet(@, title, [m \in 1..Len(matches) |-> matches[m].choice])]
         IN  MatchLoop(sel, k + 1, inv, inventory_titles, cutoff, next)

fuzzy_match_titles(sel, inv, cutoff) ==
    IF "Title" \notin inv.cols
    THEN [exc |-> "KeyError", matched |-> <<>>, unmatched |-> <<>>, conflicts |-> <<>>]
    ELSE LET inventory_titles == [i \in 1..Len(inv.rows) |-> astype_str(inv.rows[i].Title)]
         IN  MatchLoop(sel, 1, inv, inventory_titles, cutoff,
                       [exc |-> "none", matched |-> <<>>, unmatched |-> <<>>, conflicts |-> <<>>])

\* st.selectbox(label, options, key=title): the option at the position the
\* user picked, the first option when the user has not touched the widget.
selectbox(options, picked) == options[IF picked = 0 THEN 1 ELSE picked]

RECURSIVE resolve_conflicts(_, _, _)
resolve_conflicts(conflict_choices, inv, picks) ==
    IF conflict_choices = <<>> THEN <<>>
    ELSE LET n == Len(conflict_choices)
             rest == resolve_conflicts(SubSeq(conflict_choices, 1, n - 1), inv, picks)
             choice == selectbox(Append(conflict_choices[n].options, SkipLabel), picks[n])
         IN  IF choice # SkipLabel THEN Append(rest, RowsWithTitle(inv, choice)) ELSE rest

\* The join without its Handle filter.
match_handlesAllRows(product, inv) == product

\* product_df[product_df['Handle'].isin(inventory_df['Handle'])]
match_handles(product, inv) ==
    [cols |-> product.cols,
     rows |-> SelectSeq(product.rows,
                        LAMBDA r : \E i \in 1..Len(inv.rows) : inv.rows[i].Handle = r.Handle)]

\* The Step 3 condition with "or" for "and".
HandleInEitherTable(product, inv) == "Handle" \in product.cols \/ "Handle" \in inv.cols

\* 'Handle' in product_df.columns and 'Handle' in filtered_inventory.columns
HandleInBothTables(product, inv) == "Handle" \in product.cols /\ "Handle" \in inv.cols

----------------------------------------------------------------------------
(* The script run *)

ReadAll(files) == [i \in 1..Len(files) |-> read_csv_with_fallback(files[i])]

UploadsPresent == product_files # <<>> /\ inventory_files # <<>> /\ selected_file # None

AnyReadFailed ==
    \/ \E i \in 1..Len(product_files) : read_csv_with_fallback(product_files[i]) = None
    \/ \E i \in 1..Len(inventory_files) : read_csv_with_fallback(inventory_files[i]) = None
    \/ read_csv_with_fallback(selected_file) = None

\* Line 121: not all three uploads are present.
NoFiles ==
    /\ pc = "start"
    /\ ~UploadsPresent
    /\ ui' = ui \cup {"info: please upload"}
    /\ pc' = "done"
    /\ UNCHANGED <<product_files, inventory_files, selected_file, product_df, inventory_df,
                   selected_df, threshold, selected_titles, matched, unmatched, conflicts,
                   widget, conflict_rows, filtered_inventory, filtered_product, exception>>

\* Lines 75-80: some file read as None.
ReadError ==
    /\ pc = "start"
    /\ UploadsPresent
    /\ AnyReadFailed
    /\ ui' = ui \cup {"warning: could not read", "error: reading files"}
    /\ pc' = "done"
    /\ UNCHANGED <<product_files, inventory_files, selected_file, product_df, inventory_df,
                   selected_df, threshold, selected_titles, matched, unmatched, conflicts,
                   widget, conflict_rows, filtered_inventory, filtered_product, exception>>

\* Lines 75-96: every file read; the tables are merged and summarised.
ReadAndMerge ==
    /\ pc = "start"
    /\ UploadsPresent
    /\ ~AnyReadFailed
    /\ product_df' = IF Len(product_files) > 1 THEN concat(ReadAll(product_files))
                     ELSE read_csv_with_fallback(product_files[1])
    /\ inventory_df' = IF Len(inventory_files) > 1 THEN concat(ReadAll(inventory_files))
                       ELSE read_csv_with_fallback(inventory_files[1])
    /\ selected_df' = read_csv_with_fallback(selected_file)
    /\ ui' = ui \cup {"summary: inputs", "button: proceed"}
    /\ pc' = "loaded"
    /\ UNCHANGED <<product_files, inventory_files, selected_file, threshold, selected_titles,
                   matched, unmatched, conflicts, widget, conflict_rows, filtered_inventory,
                   filtered_product, exception>>

\* Line 98: the button was not clicked in this run; the run ends.
ButtonNotClicked ==
    /\ pc = "loaded"
    /\ pc' = "done"
    /\ UNCHANGED <<product_files, inventory_files, selected_file, product_df, inventory_df,
                   selected_df, threshold, selected_titles, matched, unmatched, conflicts,
                   widget, conflict_rows, filtered_inventory, filtered_product, ui, exception>>

\* Lines 98-101: the button was clicked; the selected titles are matched.
ProceedWithMatching ==
    /\ pc = "loaded"
    /\ IF "Title" \notin selected_df.cols
       THEN /\ exception' = "KeyError"
            /\ pc' = "crashed"
            /\ UNCHANGED <<selected_titles, matched, unmatched, conflicts>>
       ELSE LET titles == dropna_unique([i \in 1..Len(selected_df.rows) |->
                                             selected_df.rows[i].Title])
                res == fuzzy_match_titles(titles, inventory_df, DefaultThreshold)
            IN  /\ selected_titles' = titles
                /\ exception' = res.exc
                /\ pc' = IF res.exc = "none" THEN "matched" ELSE "crashed"
                /\ matched' = res.matched
                /\ unmatched' = res.unmatched
                /\ conflicts' = res.conflicts
    /\ UNCHANGED <<product_files, inventory_files, selected_file, product_df, inventory_df,
                   selected_df, threshold, widget, conflict_rows, filtered_inventory,
                   filtered_product, ui>>

\* What the user may have done with the selectbox of each conflict: nothing
\* (0), or picked a position among the options and "Skip".  Every pick is
\* allowed to reach the run in which the button reads as clicked, whether or
\* not Streamlit keeps widget state across the rerun a pick triggers.
WidgetStates(conf) ==
    {w \in [1..Len(conf) -> 0..(ExtractLimit + 1)] :
        \A k \in 1..Len(conf) : w[k] <= Len(conf[k].options) + 1}

\* Line 102: one selectbox per conflict.
ResolveConflicts ==
    /\ pc = "matched"
    /\ \E w \in WidgetStates(conflicts) :
          /\ widget' = w
          /\ conflict_rows' = resolve_conflicts(conflicts, inventory_df, w)
    /\ ui' = ui \cup (IF conflicts = <<>> THEN {} ELSE {"selectbox: conflicts"})
    /\ pc' = "resolved"
    /\ UNCHANGED <<product_files, inventory_files, selected_file, product_df, inventory_df,
                   selected_df, threshold, selected_titles, matched, unmatched, conflicts,
                   filtered_inventory, filtered_product, exception>>

\* Lines 104-108: pd.concat raises ValueError on an empty list of frames.
FilterInventory ==
    /\ pc = "resolved"
    /\ IF matched \o conflict_rows = <<>>
       THEN /\ exception' = "ValueError"
            /\ pc' = "crashed"
            /\ UNCHANGED <<filtered_inventory, ui>>
       ELSE /\ filtered_inventory' = drop_duplicates(concat(matched \o conflict_rows))
            /\ ui' = ui \cup {"success: inventory filtering complete", "summary: filtered inventory"}
            /\ pc' = "filtered"
            /\ UNCHANGED exception
    /\ UNCHANGED <<product_files, inventory_files, selected_file, product_df, inventory_df,
                   selected_df, threshold, selected_titles, matched, unmatched, conflicts,
                   widget, conflict_rows, filtered_product>>

\* Lines 111-118: both tables have a Handle column.
FilterProducts ==
    /\ pc = "filtered"
    /\ HandleInBothTables(product_df, filtered_inventory)
    /\ filtered_product' = drop_duplicates(match_handles(product_df, filtered_inventory))
    /\ ui' = ui \cup {"success: filtered product file created", "summary: filtered products",
                      "download: filtered inventory", "download: filtered product"}
    /\ pc' = "done"
    /\ UNCHANGED <<product_files, inventory_files, selected_file, product_df, inventory_df,
                   selected_df, threshold, selected_titles, matched, unmatched, conflicts,
                   widget, conflict_rows, filtered_inventory, exception>>

\* Lines 119-120: a Handle column is missing.
SkipProductFiltering ==
    /\ pc = "filtered"
    /\ ~HandleInBothTables(product_df, filtered_inventory)
    /\ ui' = ui \cup {"warning: handle column missing, skipping product filtering"}
    /\ pc' = "done"
    /\ UNCHANGED <<product_files, inventory_files, selected_file, product_df, inventory_df,
                   selected_df, threshold, selected_titles, matched, unmatched, conflicts,
                   widget, conflict_rows, filtered_inventory, filtered_product, exception>>

Next ==
    \/ NoFiles
    \/ ReadError
    \/ ReadAndMerge
    \/ ButtonNotClicked
    \/ ProceedWithMatching
    \/ ResolveConflicts
    \/ FilterInventory
    \/ FilterProducts
    \/ SkipProductFiltering

----------------------------------------------------------------------------
(* Inputs *)

RowSet(cols, titleCells, handleCells) ==
    [Title : IF "Title" \in cols THEN titleCells ELSE {NaN},
     Handle : IF "Handle" \in cols THEN handleCells ELSE {NaNHandle}]

TableSet(cols, titleCells, handleCells, n) ==
    {[cols |-> cols, rows |-> rs] : rs \in SeqsUpTo(RowSet(cols, titleCells, handleCells), n)}

InventoryTables ==
    UNION {TableSet(cols, {SkipLabel, Hat, NaN}, Handles, MaxInvRows) :
              cols \in {{"Title", "Handle"}, {"Title"}, {"Handle"}}}

ProductTables ==
    UNION {TableSet(cols, {Hat}, {"h1", "h3", NaNHandle}, MaxProdRows) :
              cols \in {{"Title", "Handle"}, {"Title"}}}

SelectedTables ==
    UNION {TableSet(cols, {Hat, NanText, NaN}, {NaNHandle}, MaxSelRows) :
              cols \in {{"Title"}, {"Handle"}}}

\* Small tables for the runs that vary the other inputs.
SmallInventory ==
    {[cols |-> cols, rows |-> <<[Title |-> Hat, Handle |-> IF "Handle" \in cols THEN h ELSE NaNHandle]>>] :
        h \in Handles \cup {NaNHandle}, cols \in {{"Title", "Handle"}, {"Title"}}}
SmallProduct == {[cols |-> {"Title", "Handle"},
                  rows |-> <<[Title |-> Hat, Handle |-> "h1"], [Title |-> Hat, Handle |-> "h3"]>>],
                 [cols |-> {"Title"}, rows |-> <<[Title |-> Hat, Handle |-> NaNHandle]>>]}
SmallSelected == {[cols |-> {"Title"}, rows |-> <<[Title |-> Hat, Handle |-> NaNHandle]>>]}

\* The tables of the uploads that may fail to read or come in several files.
UploadInventory == {[cols |-> {"Title", "Handle"}, rows |-> <<[Title |-> Hat, Handle |-> "h1"]>>],
                    [cols |-> {"Title"}, rows |-> <<[Title |-> Hat, Handle |-> NaNHandle]>>]}
UploadProduct == {[cols |-> {"Title", "Handle"}, rows |-> <<[Title |-> Hat, Handle |-> "h1"]>>]}

FilesOf(tables) == {OkFile(t) : t \in tables} \cup {LatinFile(t) : t \in tables} \cup {BadFile}

NotRun ==
    /\ pc = "start"
    /\ product_df = None
    /\ inventory_df = None
    /\ selected_df = None
    /\ threshold = DefaultThreshold
    /\ selected_titles = <<>>
    /\ matched = <<>>
    /\ unmatched = <<>>
    /\ conflicts = <<>>
    /\ widget = <<>>
    /\ conflict_rows = <<>>
    /\ filtered_inventory = None
    /\ filtered_product = None
    /\ ui = {}
    /\ exception = "none"

\* One readable file per role, the inventory and the selection ranging widely.
InitTables ==
    /\ product_files \in {<<OkFile(t)>> : t \in SmallProduct}
    /\ inventory_files \in {<<OkFile(t)>> : t \in InventoryTables}
    /\ selected_file \in {OkFile(t) : t \in SelectedTables}
    /\ NotRun

\* One readable file per role, the product table ranging widely.
InitProducts ==
    /\ product_files \in {<<OkFile(t)>> : t \in ProductTables}
    /\ inventory_files \in {<<OkFile(t)>> : t \in SmallInventory}
    /\ selected_file \in {OkFile(t) : t \in SmallSelected}
    /\ NotRun

\* Any number of files per role, readable or not, the tables small.
InitUploads ==
    /\ product_files \in SeqsUpTo(FilesOf(UploadProduct), MaxFiles)
    /\ inventory_files \in SeqsUpTo(FilesOf(UploadInventory), MaxFiles)
    /\ selected_file \in FilesOf(SmallSelected) \cup {None}
    /\ NotRun

Init == InitTables \/ InitProducts \/ InitUploads

Spec == Init /\ [][Next]_vars

----------------------------------------------------------------------------
(* The matcher and the resolver called on their own, at any threshold *)

Thresholds == {80, 95}

InitMatch ==
    /\ pc = "call fuzzy_match_titles"
    /\ inventory_df \in TableSet({"Title", "Handle"}, Titles, {"h1"}, MaxMatchRows)
    /\ selected_titles \in SeqsUpTo({SkipLabel, Skips}, MaxSelRows)
    /\ threshold \in Thresholds
    /\ product_files = <<>>
    /\ inventory_files = <<>>
    /\ selected_file = None
    /\ product_df = None
    /\ selected_df = None
    /\ matched = <<>>
    /\ unmatched = <<>>
    /\ conflicts = <<>>
    /\ widget = <<>>
    /\ conflict_rows = <<>>
    /\ filtered_inventory = None
    /\ filtered_product = None
    /\ ui = {}
    /\ exception = "none"

CallFuzzyMatch ==
    /\ pc = "call fuzzy_match_titles"
    /\ LET res == fuzzy_match_titles(selected_titles, inventory_df, threshold)
       IN  /\ matched' = res.matched
           /\ unmatched' = res.unmatched
           /\ conflicts' = res.conflicts
           /\ exception' = res.exc
    /\ pc' = "call resolve_conflicts"
    /\ UNCHANGED <<product_files, inventory_files, selected_file, product_df, inventory_df,
                   selected_df, threshold, selected_titles, widget, conflict_rows,
                   filtered_inventory, filtered_product, ui>>

CallResolveConflicts ==
    /\ pc = "call resolve_conflicts"
    /\ \E w \in WidgetStates(conflicts) :
          /\ widget' = w
          /\ conflict_rows' = resolve_conflicts(conflicts, inventory_df, w)
    /\ pc' = "returned"
    /\ UNCHANGED <<product_files, inventory_files, selected_file, product_df, inventory_df,
                   selected_df, threshold, selected_titles, matched, unmatched, conflicts,
                   filtered_inventory, filtered_product, ui, exception>>

NextMatch == CallFuzzyMatch \/ CallResolveConflicts

SpecMatch == InitMatch /\ [][NextMatch]_vars

----------------------------------------------------------------------------
(* Properties of the matcher and the resolver (SpecMatch) *)

MatcherReturned == pc \in {"call resolve_conflicts", "returned"} /\ exception = "none"

InventoryTitleTexts == {astype_str(inventory_df.rows[i].Title) : i \in 1..Len(inventory_df.rows)}

\* The distinct inventory titles scoring >= threshold against title.
DistinctCandidates(title) == {t \in InventoryTitleTexts : ScoreGE(ratio(title, t), threshold)}

\* The inventory rows whose title scores >= threshold against title.
CandidateRows(title) ==
    {i \in 1..Len(inventory_df.rows) :
        ScoreGE(ratio(title, astype_str(inventory_df.rows[i].Title)), threshold)}

\* C1: every selected title falls in exactly one class, fixed by the number N
\* of distinct inventory titles scoring >= threshold: N = 0 unmatched, N = 1
\* unique (one more table in matched_rows), N >= 2 conflict.
C1_ClassByDistinctTitles ==
    MatcherReturned =>
        /\ \A k \in 1..Len(selected_titles) :
              LET title == selected_titles[k]
                  N == Cardinality(DistinctCandidates(title))
              IN  /\ (N = 0) <=> (title \in Range(unmatched))
                  /\ (N >= 2) <=> (title \in DictKeys(conflicts))
        /\ Len(matched) = Cardinality({k \in 1..Len(selected_titles) :
                                          Cardinality(DistinctCandidates(selected_titles[k])) = 1})

\* C2: the options of every conflict hold every inventory title scoring >=
\* threshold, and are some inventory rows' titles ranked by descending score,
\* equal scores in inventory order.
C2_ConflictHoldsAllCandidates ==
    MatcherReturned =>
        \A c \in 1..Len(conflicts) :
            LET title == conflicts[c].title
                options == conflicts[c].options
                texts == [i \in 1..Len(inventory_df.rows) |-> astype_str(inventory_df.rows[i].Title)]
            IN  /\ \A i \in CandidateRows(title) : texts[i] \in Range(options)
                /\ \E S \in SUBSET CandidateRows(title) :
                      LET ranked == RankIdx(title, texts, S)
                      IN  options = [k \in 1..Len(ranked) |-> texts[ranked[k]]]

\* The rows the decisions name: nothing for the skip position (the last one),
\* the inventory rows titled as the candidate for any other position.
RECURSIVE DecidedRows(_)
DecidedRows(n) ==
    IF n = 0 THEN <<>>
    ELSE IF widget[n] = Len(conflicts[n].options) + 1
         THEN DecidedRows(n - 1)
         ELSE Append(DecidedRows(n - 1),
                     [cols |-> inventory_df.cols,
                      rows |-> SelectSeq(inventory_df.rows,
                                         LAMBDA r : r.Title = conflicts[n].options[widget[n]])])

\* C3: with a decision supplied for every conflict, the resolver returns
\* nothing for a skip and the rows titled as the chosen candidate otherwise,
\* whatever the candidate's text.
C3_ContributionFollowsDecision ==
    (pc = "returned" /\ \A k \in 1..Len(conflicts) : widget[k] # 0) =>
        conflict_rows = DecidedRows(Len(conflicts))

----------------------------------------------------------------------------
(* Properties of the script run (Spec) *)

NoDuplicateRows(df) == \A i, j \in 1..Len(df.rows) : df.rows[i] = df.rows[j] => i = j

\* The rows of the tables of a list of tables.
RowsOf(dfs) == UNION {Range(dfs[i].rows) : i \in 1..Len(dfs)}

\* C4: FilteredInventory has no two equal rows, and each of its rows is a row
\* of Inventory that was matched uniquely or belongs to a chosen candidate.
C4_FilteredInventoryDistinctRowsOfInventory ==
    filtered_inventory # None =>
        /\ NoDuplicateRows(filtered_inventory)
        /\ Range(filtered_inventory.rows) \subseteq Range(inventory_df.rows)
        /\ Range(filtered_inventory.rows) \subseteq RowsOf(matched) \cup RowsOf(conflict_rows)

\* Duplicate rows were gathered and FilteredInventory kept one of each.
C4_Witness ==
    /\ pc = "filtered"
    /\ filtered_inventory.rows # <<>>
    /\ Len(concat(matched \o conflict_rows).rows) > Len(filtered_inventory.rows)

HandlesOf(df) == {df.rows[i].Handle : i \in 1..Len(df.rows)}

\* C5: every row of FilteredProduct is a row of Product whose Handle is the
\* Handle of a FilteredInventory row, and every such Product row is in it.
C5_FilteredProductIsHandleJoin ==
    filtered_product # None =>
        /\ Range(filtered_product.rows) \subseteq Range(product_df.rows)
        /\ \A r \in Range(filtered_product.rows) : r.Handle \in HandlesOf(filtered_inventory)
        /\ \A r \in Range(product_df.rows) :
              r.Handle \in HandlesOf(filtered_inventory) => r \in Range(filtered_product.rows)

\* The join kept one Product row and left another out.
C5_Witness ==
    /\ filtered_product # None
    /\ filtered_product.rows # <<>>
    /\ \E r \in Range(product_df.rows) : r \notin Range(filtered_product.rows)

RunPastInventoryFilter == pc = "done" /\ filtered_inventory # None

\* C6: once the run is past the inventory filter, FilteredProduct exists (and
\* is offered) exactly when Product and FilteredInventory both have a Handle
\* column; otherwise the run warns that product filtering is skipped.
C6_JoinSkippedWithoutHandle ==
    RunPastInventoryFilter =>
        IF "Handle" \in product_df.cols /\ "Handle" \in filtered_inventory.cols
        THEN /\ filtered_product # None
             /\ "download: filtered product" \in ui
        ELSE /\ filtered_product = None
             /\ "download: filtered product" \notin ui
             /\ "success: filtered product file created" \notin ui
             /\ "warning: handle column missing, skipping product filtering" \in ui

\* The run ended with the join skipped for want of a Handle column.
C6_Witness ==
    /\ RunPastInventoryFilter
    /\ "Handle" \notin product_df.cols \/ "Handle" \notin filtered_inventory.cols
    /\ "warning: handle column missing, skipping product filtering" \in ui

Unreadable(f) == \A e \in EncSet : f.parse[e] = None

SomeUploadUnreadable ==
    \/ \E i \in 1..Len(product_files) : Unreadable(product_files[i])
    \/ \E i \in 1..Len(inventory_files) : Unreadable(inventory_files[i])
    \/ selected_file # None /\ Unreadable(selected_file)

\* C7: with an upload unreadable under every encoding, nothing after loading
\* ever runs; and when all three roles are uploaded (so that the files are
\* read at all) the run ends with the read error.
C7_UnreadableFileStopsRun ==
    SomeUploadUnreadable =>
        /\ pc \in {"start", "done"}
        /\ (pc = "done" /\ UploadsPresent) => "error: reading files" \in ui
        /\ product_df = None /\ inventory_df = None /\ selected_df = None
        /\ matched = <<>> /\ unmatched = <<>> /\ conflicts = <<>> /\ conflict_rows = <<>>
        /\ filtered_inventory = None /\ filtered_product = None
        /\ ui \subseteq {"warning: could not read", "error: reading files", "info: please upload"}

\* A run with an unreadable file among readable ones has ended in the error.
C7_Witness ==
    /\ pc = "done"
    /\ UploadsPresent
    /\ SomeUploadUnreadable
    /\ \E i \in 1..Len(inventory_files) : ~Unreadable(inventory_files[i])
    /\ "error: reading files" \in ui

\* C8: when Inventory has no Title column the run never ends in an unhandled
\* exception: matching reports an input error and nothing is emitted.
C8_MissingTitleReportedGracefully ==
    (inventory_df # None /\ "Title" \notin inventory_df.cols) =>
        /\ exception = "none"
        /\ pc # "crashed"
        /\ filtered_inventory = None
        /\ filtered_product = None

InventoryFilterAttempted == pc \in {"filtered", "crashed"} /\ exception # "KeyError"

\* C9: a selected title no inventory title matches is in unmatched and adds no
\* row; when every selected title is unmatched the inventory filter still
\* ends with a FilteredInventory, an empty one.
C9_UnmatchedGiveEmptyFilteredInventory ==
    InventoryFilterAttempted =>
        /\ \A k \in 1..Len(selected_titles) :
              (\A t \in InventoryTitleTexts : ~ScoreGE(ratio(selected_titles[k], t), DefaultThreshold))
                  => selected_titles[k] \in Range(unmatched)
        /\ Len(unmatched) = Len(selected_titles) =>
              /\ pc = "filtered"
              /\ filtered_inventory # None
              /\ filtered_inventory.rows = <<>>

\* The inventory rows a supplied decision names, over all conflicts.
RowsDecidedByUser ==
    UNION {{r \in Range(inventory_df.rows) : r.Title = conflicts[k].options[widget[k]]} :
              k \in {n \in 1..Len(conflicts) :
                        widget[n] # 0 /\ widget[n] <= Len(conflicts[n].options)}}

\* C10: every row of FilteredInventory was matched uniquely or belongs to a
\* candidate that a supplied decision names; a conflict left undecided adds none.
C10_ConflictRowsOnlyByDecision ==
    filtered_inventory # None =>
        Range(filtered_inventory.rows) \subseteq RowsOf(matched) \cup RowsDecidedByUser

====
